---- MODULE Spec2Model ----
(***************************************************************************)
(* Sidebar docking surfaces of cogniStruct (components/layout/Sidebar.tsx).*)
(* Two paneview sidebars ("left", "right") registered in a window-global   *)
(* map, a window-global drag session slot, and the cross-sidebar migration *)
(* moveCardToSidebar.  Every exported function and every event listener of *)
(* the file is one action.  The paneview of dockview-core is modelled by   *)
(* what the calls made here do to its ordered pane list: addPanel builds   *)
(* the body through createComponent and inserts the pane (it does not look *)
(* for an existing pane with the same id), removePanel takes the pane out  *)
(* and fires the view listeners, getPanel finds the first pane with the id.*)
(* The pixel sizes computed by the splitview's relayout are not modelled:  *)
(* a pane keeps the size it was added with.                                *)
(* SpecApi runs the exported functions, SpecDrag the drag and drop         *)
(* listeners and their timers (SpecDragFair with the timers' callbacks     *)
(* guaranteed to run).  The center surface (components/layout/             *)
(* DockLayout.tsx) keeps one DockviewComponent in a window-global slot;    *)
(* SpecDock runs its component lifecycle and panel functions.  Spec is all *)
(* of them together.                                                       *)
(***************************************************************************)
EXTENDS Integers, Sequences, FiniteSets, Bags, TLC

\* ------------------------------------------------------------------ bounds
MaxPanels == 2
MaxTimers == 2
MaxInstances == 2
MaxDockPanels == 2
MaxClock == 1
MaxGroups == 1
MaxPopouts == 1

\* --------------------------------------------------------------- constants
Positions == {"left", "right"}
Ids == {"explorer", "search"}
Types == {"file-tree", "search"}
None == "undefined"
NoIndex == -1
NoDrag == [cardId |-> None, fromPosition |-> None]
NoData == [viewId |-> None, paneId |-> None]
\* size of a pane added without options.size (Sizing.Distribute)
DistributeSize == 0
\* minimumBodySize of a pane added without one
NoBodySize == -1
ClearDelay == 100

\* the container's rectangle when a component mounts, and the content
\* rectangles a resize observer reports
ContainerRect == << 300, 500 >>
Rects == { << 0, 0 >>, << 0, 500 >>, << 300, 500 >> }

Other(p) == IF p = "left" THEN "right" ELSE "left"

\* props a Sidebar component can be mounted with
AppLayoutCards ==
    << [id |-> "explorer", type |-> "file-tree", title |-> "Explorer",
        params |-> None, expanded |-> "true", size |-> DistributeSize,
        minimumBodySize |-> 100],
       [id |-> "search", type |-> "search", title |-> "Search",
        params |-> None, expanded |-> "true", size |-> DistributeSize,
        minimumBodySize |-> 80] >>

SidebarPropsSet ==
    { [cards |-> {"file-tree", "search"}, viewListeners |-> TRUE,
       initialLayout |-> AppLayoutCards],
      [cards |-> {"file-tree"}, viewListeners |-> FALSE,
       initialLayout |-> << >>] }

\* options.index of the addCard and moveCardToSidebar calls made: none,
\* the front, or after the first card
Indexes == {NoIndex, 0, 1}

\* the addCard calls made: type and options (options.index is drawn apart)
AddCardCalls ==
    { [type |-> "file-tree", id |-> "explorer", title |-> "Explorer",
       params |-> None, expanded |-> None, size |-> 300],
      [type |-> "search", id |-> "search", title |-> None,
       params |-> "q", expanded |-> "false", size |-> 150] }

\* the addCard calls made without options.id
AutoAddCardCalls ==
    { [type |-> "file-tree", id |-> None, title |-> None,
       params |-> None, expanded |-> None, size |-> 300] }

\* the id addCard generates for a call without options.id at clock value t:
\* `${type}-${Date.now()}`
AutoId(type, t) == type \o "-" \o ToString(t)

\* the clock values Date.now() gives, counted from the start of the run
Clock == 0..MaxClock

AllIds == Ids \cup { AutoId(c.type, t) : c \in AutoAddCardCalls, t \in Clock }

\* the center surface (components/layout/DockLayout.tsx)
DockIds == {"editor-1", "graph-1"}
Instances == 1..MaxInstances

\* props a DockLayout component can be mounted with
DockPropsSet ==
    { [panels |-> {"editor"},
       initialLayout |->
         << [id |-> "editor-1", type |-> "editor", title |-> "Editor",
             params |-> None],
            [id |-> "graph-1", type |-> "graph", title |-> None,
             params |-> "g"] >>],
      [panels |-> {"editor", "graph"}, initialLayout |-> << >>] }

\* the addPanel calls made: type and options
AddPanelCalls ==
    { [type |-> "editor", id |-> "editor-1", title |-> None,
       params |-> "p"],
      [type |-> "editor", id |-> "editor-1", title |-> None,
       params |-> None],
      [type |-> "graph", id |-> "graph-1", title |-> "Graph",
       params |-> None] }

\* the addPanel calls made without options.id
AutoAddPanelCalls ==
    { [type |-> "editor", id |-> None, title |-> None, params |-> None] }

AllDockIds ==
    DockIds \cup { AutoId(c.type, t) : c \in AutoAddPanelCalls, t \in Clock }

VARIABLES
    apis,        \* window.__paneviewApis: positions with a paneview
    mounted,     \* positions whose Sidebar component is mounted
    props,       \* props captured by the paneview's creating component
    panels,      \* paneview.panels of each position
    cardTypes,   \* window.__paneviewCardTypes: cardId -> component type
    cardParams,  \* window.__paneviewCardParams: position -> cardId -> params
    dragData,    \* window.__sidebarDragData
    dropTarget,  \* container carries class sidebar-drop-target
    gesture,     \* "idle" or "dragging": a header drag is in progress
    paneData,    \* the pane transfer of the drag: what event.getData() gives
    timers,      \* pending setTimeout callbacks (a bag)
    viewSize,    \* width and height each paneview was last laid out with
    last,        \* the operation that produced this state, and its outcome
    dockviewApi,          \* window.__dockviewApi: instance number, 0 is null
    dockviews,            \* the DockviewComponent instances constructed
    dockviewPanelParams,  \* window.__dockviewPanelParams: panel id -> params
    dockLayouts,          \* mounted DockLayout components, by their instance
    dockLast,             \* the last DockLayout operation and its outcome
    now                   \* Date.now(): the clock, in milliseconds

sidebarVars == << apis, mounted, props, panels, cardTypes, cardParams,
                  dragData, dropTarget, gesture, paneData, timers, viewSize,
                  last >>

dockVars == << dockviewApi, dockviews, dockviewPanelParams, dockLayouts,
               dockLast >>

vars == << apis, mounted, props, panels, cardTypes, cardParams, dragData,
           dropTarget, gesture, paneData, timers, viewSize, last,
           dockviewApi,
           dockviews, dockviewPanelParams, dockLayouts, dockLast, now >>

NoProps == [cards |-> {}, viewListeners |-> FALSE, initialLayout |-> << >>]

\* ------------------------------------------------------- sequence helpers
IdsOf(seq) == { seq[i].id : i \in 1..Len(seq) }

Count(seq, id) == Cardinality({ i \in 1..Len(seq) : seq[i].id = id })

\* Array.prototype.find over the panes: 1-based position of the first pane
\* with this id, 0 when there is none
GetPanel(seq, id) ==
    IF id \in IdsOf(seq)
    THEN CHOOSE i \in 1..Len(seq) :
            seq[i].id = id /\ \A j \in 1..(i - 1) : seq[j].id # id
    ELSE 0

RemoveAt(seq, i) == SubSeq(seq, 1, i - 1) \o SubSeq(seq, i + 1, Len(seq))

\* splice(index, 0, e) with a 0-based index; undefined appends
InsertAt(seq, index, e) ==
    IF index = NoIndex
    THEN Append(seq, e)
    ELSE SubSeq(seq, 1, index) \o << e >> \o SubSeq(seq, index + 1, Len(seq))

TotalPanels == Len(panels["left"]) + Len(panels["right"])

\* -------------------------------------------------------------- factories
\* createComponent: props.cards[name] || props.cards['default'], else throw
CreateComponentThrows(p, name) ==
    ~ (name \in props[p].cards \/ "default" \in props[p].cards)

\* createHeaderComponent of the paneview of p: the header it builds for a
\* pane keeps props.position of that sidebar for its dragstart listener
CreateHeaderComponent(p) == p

\* isExpanded: options.expanded !== false
IsExpanded(expanded) == expanded # "false"

\* positions whose pane list holds the card in the given panels map
Owners(ps, id) == { p \in Positions : id \in IdsOf(ps[p]) }

\* what a props.onDidAddView / onDidRemoveView listener of position p sees
\* when the paneview fires it: the owners of the card at that moment
Seen(p, ev, id, ps) ==
    IF props[p].viewListeners
    THEN { [ev |-> ev, card |-> id, owners |-> Owners(ps, id)] }
    ELSE {}

NoPanel == [id |-> None, component |-> None, title |-> None,
            expanded |-> FALSE, size |-> 0, minimumBodySize |-> NoBodySize,
            header |-> None]

NoTimers == EmptyBag
ClearTimer == [kind |-> "clear", card |-> None, from |-> None, to |-> None,
               delay |-> ClearDelay]
MoveTimer(id, from, to) ==
    [kind |-> "move", card |-> id, from |-> from, to |-> to, delay |-> 0]

\* what a deferred callback records of the operation that ran before it
NoPrev == [op |-> None, pos |-> None, card |-> None, result |-> None]

Last(op, pos, card, from, to, index, result, moveCalled, seen) ==
    [op |-> op, pos |-> pos, card |-> card, from |-> from, to |-> to,
     index |-> index, result |-> result, moveCalled |-> moveCalled,
     seen |-> seen, slot |-> dragData, before |-> panels,
     paramsBefore |-> cardParams, sizeBefore |-> viewSize,
     rect |-> << 0, 0 >>, prev |-> NoPrev,
     again |-> (op = "addCard" /\ last.op = op /\ last.pos = pos
                /\ last.card = card),
     origin |-> NoPanel]

\* a DockviewComponent not constructed yet
NoDockview == [state |-> "none", panels |-> << >>, active |-> None,
               factories |-> {}, size |-> << 0, 0 >>, emptyGroups |-> 0,
               maximized |-> FALSE, location |-> "grid", visible |-> TRUE,
               disableDnd |-> FALSE, popouts |-> 0]

\* the panels of the registered dockview
DockPanels ==
    IF dockviewApi = 0 THEN << >> ELSE dockviews[dockviewApi].panels

DockLast(op, id, result) ==
    [op |-> op, id |-> id, result |-> result, apiBefore |-> dockviewApi,
     panelsBefore |-> DockPanels, paramsBefore |-> dockviewPanelParams,
     viewsBefore |-> dockviews, rect |-> << 0, 0 >>, params |-> None,
     again |-> (op = "addPanel" /\ dockLast.op = op /\ dockLast.id = id)]

Init ==
    /\ apis = {}
    /\ mounted = {}
    /\ props = [p \in Positions |-> NoProps]
    /\ panels = [p \in Positions |-> << >>]
    /\ cardTypes = [c \in AllIds |-> None]
    /\ cardParams = [p \in Positions |-> [c \in AllIds |-> None]]
    /\ dragData = NoDrag
    /\ dropTarget = [p \in Positions |-> FALSE]
    /\ gesture = "idle"
    /\ paneData = NoData
    /\ timers = NoTimers
    /\ now = 0
    /\ last = [op |-> "init", pos |-> None, card |-> None, from |-> None,
               to |-> None, index |-> NoIndex, result |-> None,
               moveCalled |-> "no", seen |-> {}, slot |-> NoDrag,
               before |-> [p \in Positions |-> << >>],
               paramsBefore |-> [p \in Positions |-> [c \in AllIds |-> None]],
               sizeBefore |-> [p \in Positions |-> << 0, 0 >>],
               rect |-> << 0, 0 >>, prev |-> NoPrev,
               again |-> FALSE, origin |-> NoPanel]
    /\ viewSize = [p \in Positions |-> << 0, 0 >>]
    /\ dockviewApi = 0
    /\ dockviews = [n \in Instances |-> NoDockview]
    /\ dockviewPanelParams = [c \in AllDockIds |-> None]
    /\ dockLayouts = {}
    /\ dockLast = [op |-> "init", id |-> None, result |-> None,
                   apiBefore |-> 0, panelsBefore |-> << >>,
                   paramsBefore |-> [c \in AllDockIds |-> None],
                   viewsBefore |-> [n \in Instances |-> NoDockview],
                   rect |-> << 0, 0 >>, params |-> None, again |-> FALSE]

\* ------------------------------------------------------ setupInitialLayout
\* the cards of config from position k on, added to the state st =
\* [panels, types, params] of position p under the factories cs; the view
\* listeners of the props are registered before (setupEventHandlers) and
\* see every card added here
RECURSIVE SetupInitialLayout(_, _, _, _)
SetupInitialLayout(config, k, cs, st) ==
    IF k > Len(config) THEN st
    ELSE LET c == config[k] IN
         IF c.type \notin cs
         THEN SetupInitialLayout(config, k + 1, cs, st)
         ELSE SetupInitialLayout(config, k + 1, cs,
                [panels |-> Append(st.panels,
                               [id |-> c.id, component |-> c.type,
                                title |-> c.title,
                                expanded |-> IsExpanded(c.expanded),
                                size |-> c.size,
                                minimumBodySize |->
                                  IF c.minimumBodySize # NoBodySize
                                  THEN c.minimumBodySize ELSE 100,
                                header |-> CreateHeaderComponent(st.pos)]),
                 pos |-> st.pos, listen |-> st.listen,
                 seen |-> IF st.listen
                          THEN st.seen \cup
                               { [ev |-> "add", card |-> c.id,
                                  owners |->
                                    Owners(panels, c.id) \cup {st.pos}] }
                          ELSE st.seen,
                 types |-> [st.types EXCEPT ![c.id] = c.type],
                 params |-> IF c.params # None
                            THEN [st.params EXCEPT ![c.id] = c.params]
                            ELSE st.params])

\* ------------------------------------------------------------------ mount
\* Sidebar onMount: create and register the paneview on the first mount of
\* a position, re-attach the registered one afterwards
Mount(p, pr) ==
    /\ p \notin mounted
    /\ mounted' = mounted \cup {p}
    /\ IF p \notin apis
       THEN LET st == SetupInitialLayout(pr.initialLayout, 1, pr.cards,
                        [panels |-> << >>, types |-> cardTypes,
                         params |-> cardParams[p], pos |-> p,
                         listen |-> pr.viewListeners, seen |-> {}])
            IN /\ TotalPanels + Len(st.panels) <= MaxPanels
               /\ apis' = apis \cup {p}
               /\ props' = [props EXCEPT ![p] = pr]
               /\ panels' = [panels EXCEPT ![p] = st.panels]
               /\ cardTypes' = st.types
               /\ cardParams' = [cardParams EXCEPT ![p] = st.params]
               /\ last' = Last("mount", p, None, None, None, NoIndex,
                               "created", "no", st.seen)
       ELSE /\ pr = props[p]
            /\ UNCHANGED << apis, props, panels, cardTypes, cardParams >>
            /\ last' = Last("mount", p, None, None, None, NoIndex,
                            "reattached", "no", {})
    /\ viewSize' = [viewSize EXCEPT ![p] = ContainerRect]
    /\ UNCHANGED << dockVars, now >>
    /\ UNCHANGED << dragData, dropTarget, gesture, paneData, timers >>

\* onCleanup: listeners and observer detached, the paneview is kept
Unmount(p) ==
    /\ p \in mounted
    /\ mounted' = mounted \ {p}
    /\ dropTarget' = [dropTarget EXCEPT ![p] = FALSE]
    /\ last' = Last("unmount", p, None, None, None, NoIndex, None, "no", {})
    /\ UNCHANGED << dockVars, viewSize, now >>
    /\ UNCHANGED << apis, props, panels, cardTypes, cardParams, dragData,
                    gesture, paneData, timers >>

\* ----------------------------------------------------------------- resize
\* the ResizeObserver callback of mounted sidebar p for one entry with
\* content rectangle rect: the paneview is laid out with whatever it reports
Resize(p, rect) ==
    /\ p \in mounted
    /\ viewSize' = [viewSize EXCEPT ![p] = rect]
    /\ last' = [Last("resize", p, None, None, None, NoIndex, "layout",
                     "no", {}) EXCEPT !.rect = rect]
    /\ UNCHANGED << apis, mounted, props, panels, cardTypes, cardParams,
                    dragData, dropTarget, gesture, paneData, timers >>
    /\ UNCHANGED << dockVars, now >>

\* ---------------------------------------------------------------- addCard
\* the record of an addCard call; a call without options.id also keeps
\* what the operation before it was
LastAdd(call, rec) ==
    IF call.id # None THEN rec
    ELSE [rec EXCEPT !.prev = [op |-> last.op, pos |-> last.pos,
                               card |-> last.card, result |-> last.result]]

AddCard(p, call, index) ==
    LET type == call.type
        id == IF call.id # None THEN call.id ELSE AutoId(call.type, now)
        opt == call
    IN
    /\ (p \in apis /\ GetPanel(panels[p], id) = 0) => TotalPanels < MaxPanels
    /\ index \in {NoIndex} \cup 0..Len(panels[p])
    /\ IF p \notin apis
       THEN /\ last' = LastAdd(call, Last("addCard", p, id, None, None,
                                          NoIndex, "undefined", "no", {}))
            /\ UNCHANGED << panels, cardTypes, cardParams >>
       ELSE IF GetPanel(panels[p], id) # 0
       THEN /\ last' = LastAdd(call, Last("addCard", p, id, None, None,
                                          NoIndex, "existing", "no", {}))
            /\ UNCHANGED << panels, cardTypes, cardParams >>
       ELSE /\ cardParams' = IF opt.params # None
                             THEN [cardParams EXCEPT ![p][id] = opt.params]
                             ELSE cardParams
            /\ cardTypes' = [cardTypes EXCEPT ![id] = type]
            /\ IF CreateComponentThrows(p, type)
               THEN /\ panels' = panels
                    /\ last' = LastAdd(call,
                                 Last("addCard", p, id, None, None,
                                      NoIndex, "throw", "no", {}))
               ELSE LET new == [id |-> id, component |-> type,
                                title |-> IF opt.title # None
                                          THEN opt.title ELSE type,
                                expanded |-> IsExpanded(opt.expanded),
                                size |-> opt.size,
                                minimumBodySize |-> NoBodySize,
                                header |-> CreateHeaderComponent(p)]
                        added == [panels EXCEPT
                                    ![p] = InsertAt(@, index, new)]
                    IN /\ panels' = added
                       /\ last' = LastAdd(call,
                                    Last("addCard", p, id, None, None,
                                         index, "added", "no",
                                         Seen(p, "add", id, added)))
    /\ UNCHANGED << dockVars, viewSize, now >>
    /\ UNCHANGED << apis, mounted, props, dragData, dropTarget, gesture,
                    paneData,
                    timers >>

\* ------------------------------------------------------------- removeCard
\* removeCard(position, panel) with panel the pane object at 1-based place i
\* of sidebar src.  paneview.removePanel looks the pane up by identity and
\* removes the pane at the index found, which is -1 for a pane that is not
\* in this paneview: Array.splice(-1, 1) then takes the last pane out, and
\* with no pane at all the disposal of the missing view throws.  The view
\* listeners are told about the panel that was passed in.
RemoveCard(p, src, i) ==
    /\ p \in apis
    /\ src \in apis
    /\ i \in 1..Len(panels[src])
    /\ LET panel == panels[src][i]
           at == IF src = p THEN i ELSE Len(panels[p])
           removed == [panels EXCEPT ![p] = RemoveAt(@, at)]
       IN IF at = 0
          THEN /\ panels' = panels
               /\ last' = Last("removeCard", p, panel.id, src, None, NoIndex,
                               "throw", "no", {})
          ELSE /\ panels' = removed
               /\ last' = Last("removeCard", p, panel.id, src, None, NoIndex,
                               None, "no",
                               Seen(p, "remove", panel.id, removed))
    /\ UNCHANGED << dockVars, viewSize, now >>
    /\ UNCHANGED << apis, mounted, props, cardTypes, cardParams, dragData,
                    dropTarget, gesture, paneData, timers >>

\* ------------------------------------------- sidebarToJSON, sidebarFromJSON
\* the cards of a layout handed to sidebarFromJSON: the first n cards of the
\* application's layout, saved in an earlier session
SavedCards(n) == SubSeq(AppLayoutCards, 1, n)

\* the pane the paneview of p builds for a saved card
SavedPane(p, c) ==
    [id |-> c.id, component |-> c.type, title |-> c.title,
     expanded |-> IsExpanded(c.expanded), size |-> c.size,
     minimumBodySize |-> c.minimumBodySize,
     header |-> CreateHeaderComponent(p)]

\* 1-based place of the first saved card whose component has no factory in
\* sidebar p (createComponent throws for it), 0 when there is none
FirstThrowing(p, cards) ==
    IF \E i \in 1..Len(cards) : CreateComponentThrows(p, cards[i].type)
    THEN CHOOSE i \in 1..Len(cards) :
            /\ CreateComponentThrows(p, cards[i].type)
            /\ \A j \in 1..(i - 1) : ~ CreateComponentThrows(p, cards[j].type)
    ELSE 0

\* sidebarFromJSON(position, data) for a layout holding the first n saved
\* cards: the call is handed to paneview.fromJSON, which replaces the panes
\* of the sidebar by those of the layout, building each through
\* createComponent.  When createComponent throws for a card, what the
\* paneview is left with is not decided here: it holds the panes built
\* before the throw (kept) or none.  The card type and card params maps
\* are not touched.
SidebarFromJSON(p, n, kept) ==
    /\ p \in apis
    /\ n \in 0..Len(AppLayoutCards)
    /\ TotalPanels - Len(panels[p]) + n <= MaxPanels
    /\ LET cards == SavedCards(n)
           t == FirstThrowing(p, cards)
           built == [i \in 1..(IF t = 0 THEN n ELSE t - 1) |->
                       SavedPane(p, cards[i])]
       IN IF t # 0
          THEN /\ panels' = [panels EXCEPT
                               ![p] = IF kept THEN built ELSE << >>]
               /\ last' = Last("fromJSON", p, None, None, None, NoIndex,
                               "throw", "no", {})
          ELSE /\ panels' = [panels EXCEPT ![p] = built]
               /\ last' = Last("fromJSON", p, None, None, None, NoIndex,
                               "restored", "no", {})
    /\ UNCHANGED << apis, mounted, props, cardTypes, cardParams, dragData,
                    dropTarget, gesture, paneData, timers >>
    /\ UNCHANGED << dockVars, viewSize, now >>

\* clearSidebar(position): paneview.clear() takes every pane out; the
\* params and type maps are left as they are
ClearSidebar(p) ==
    /\ IF p \in apis
       THEN /\ panels' = [panels EXCEPT ![p] = << >>]
            /\ last' = Last("clear", p, None, None, None, NoIndex,
                            "cleared", "no", {})
       ELSE /\ panels' = panels
            /\ last' = Last("clear", p, None, None, None, NoIndex,
                            "undefined", "no", {})
    /\ UNCHANGED << apis, mounted, props, cardTypes, cardParams, dragData,
                    dropTarget, gesture, paneData, timers >>
    /\ UNCHANGED << dockVars, viewSize, now >>

\* --------------------------------------------------------------- moveCard
\* moveCard(position, from, to) with 0-based indices, handed unchanged to
\* paneview.movePanel: nothing happens for from = to; otherwise the pane at
\* from is taken out and inserted at to.  With from past the last pane
\* there is no pane to take and the call throws; a to past the end inserts
\* at the end.
MoveCard(p, from, to) ==
    /\ p \in apis
    /\ IF from = to
       THEN /\ panels' = panels
            /\ last' = Last("moveCard", p, None, None, None, from, "same",
                            "no", {})
       ELSE IF from >= Len(panels[p])
       THEN /\ panels' = panels
            /\ last' = Last("moveCard", p, None, None, None, from, "throw",
                            "no", {})
       ELSE LET rest == RemoveAt(panels[p], from + 1)
                t == IF to > Len(rest) THEN Len(rest) ELSE to
            IN /\ panels' = [panels EXCEPT
                               ![p] = InsertAt(rest, t, @[from + 1])]
               /\ last' = Last("moveCard", p, None, None, None, from,
                               "moved", "no", {})
    /\ UNCHANGED << dockVars, viewSize, now >>
    /\ UNCHANGED << apis, mounted, props, cardTypes, cardParams, dragData,
                    dropTarget, gesture, paneData, timers >>

\* ------------------------------------------------------ moveCardToSidebar
\* a migration that would carry the source pane's header over to the target
\* instead of having the target build a new one
MigrateKeepsHeader(cardId, fromPosition, toPosition, index) ==
    LET i == GetPanel(panels[fromPosition], cardId) IN
    IF i = 0
    THEN [panels |-> panels, result |-> "false", seen |-> {}]
    ELSE LET panel == panels[fromPosition][i]
             component == IF cardTypes[cardId] # None
                          THEN cardTypes[cardId] ELSE cardId
             title == cardId
             isExpanded == panel.expanded
             size == panel.size
             removed == [panels EXCEPT ![fromPosition] = RemoveAt(@, i)]
             seenRemove == Seen(fromPosition, "remove", cardId, removed)
         IN IF CreateComponentThrows(toPosition, component)
            THEN [panels |-> removed, result |-> "throw",
                  seen |-> seenRemove]
            ELSE LET added == [removed EXCEPT ![toPosition] =
                                 InsertAt(@, index,
                                    [id |-> cardId, component |-> component,
                                     title |-> title,
                                     expanded |-> isExpanded,
                                     size |-> size,
                                     minimumBodySize |-> NoBodySize,
                                     header |-> panel.header])]
                 IN [panels |-> added, result |-> "true",
                     seen |-> seenRemove \cup
                              Seen(toPosition, "add", cardId, added)]

\* moveCardToSidebar from the lookup of the source panel on (lines 869-896),
\* both paneviews being registered: the panels afterwards, the value
\* returned ("throw" when addPanel's createComponent throws) and what the
\* view listeners saw
Migrate(cardId, fromPosition, toPosition, index) ==
    LET i == GetPanel(panels[fromPosition], cardId) IN
    IF i = 0
    THEN [panels |-> panels, result |-> "false", seen |-> {}]
    ELSE LET panel == panels[fromPosition][i]
             component == IF cardTypes[cardId] # None
                          THEN cardTypes[cardId] ELSE cardId
             title == cardId
             isExpanded == panel.expanded
             size == panel.size
             removed == [panels EXCEPT ![fromPosition] = RemoveAt(@, i)]
             seenRemove == Seen(fromPosition, "remove", cardId, removed)
         IN IF CreateComponentThrows(toPosition, component)
            THEN [panels |-> removed, result |-> "throw",
                  seen |-> seenRemove]
            ELSE LET added == [removed EXCEPT ![toPosition] =
                                 InsertAt(@, index,
                                    [id |-> cardId, component |-> component,
                                     title |-> title,
                                     expanded |-> isExpanded,
                                     size |-> size,
                                     minimumBodySize |-> NoBodySize,
                                     header |->
                                       CreateHeaderComponent(toPosition)])]
                 IN [panels |-> added, result |-> "true",
                     seen |-> seenRemove \cup
                              Seen(toPosition, "add", cardId, added)]

\* moveCardToSidebar without the registry check of lines 864-867: getPanel
\* is then read from a missing paneview, which throws
MoveCardToSidebarNoRegistryCheck(cardId, fromPosition, toPosition, index) ==
    IF fromPosition = toPosition
    THEN [panels |-> panels, result |-> "false", seen |-> {}]
    ELSE IF fromPosition \notin apis
    THEN [panels |-> panels, result |-> "throw", seen |-> {}]
    ELSE Migrate(cardId, fromPosition, toPosition, index)

\* outcome of moveCardToSidebar(cardId, fromPosition, toPosition, {index})
\* in the current state
MoveCardToSidebar(cardId, fromPosition, toPosition, index) ==
    IF fromPosition = toPosition
    THEN [panels |-> panels, result |-> "false", seen |-> {}]
    ELSE IF fromPosition \notin apis \/ toPosition \notin apis
    THEN [panels |-> panels, result |-> "false", seen |-> {}]
    ELSE Migrate(cardId, fromPosition, toPosition, index)

\* a direct call of the exported function
CallMoveCardToSidebar(cardId, fromPosition, toPosition, index) ==
    /\ index \in {NoIndex} \cup 0..Len(panels[toPosition])
    /\ LET out == MoveCardToSidebar(cardId, fromPosition, toPosition, index)
       IN /\ panels' = out.panels
          /\ last' = [Last("move", toPosition, cardId, fromPosition,
                           toPosition,
                           IF out.result = "true" THEN index ELSE NoIndex,
                           out.result, "sync", out.seen)
                        EXCEPT !.origin =
                          IF /\ last.op = "move" /\ last.result = "true"
                             /\ last.card = cardId
                             /\ last.from = toPosition
                             /\ last.to = fromPosition
                          THEN last.before[toPosition]
                                 [GetPanel(last.before[toPosition], cardId)]
                          ELSE NoPanel]
    /\ UNCHANGED << dockVars, viewSize, now >>
    /\ UNCHANGED << apis, mounted, props, cardTypes, cardParams, dragData,
                    dropTarget, gesture, paneData, timers >>

\* ------------------------------------------------------------ drag events
\* dragstart on the header of the pane at place i of mounted sidebar p
DragStart(p, i) ==
    /\ p \in mounted
    /\ gesture = "idle"
    /\ i \in 1..Len(panels[p])
    /\ dragData' = [cardId |-> panels[p][i].id,
                    fromPosition |-> panels[p][i].header]
    /\ gesture' = "dragging"
    /\ paneData' = [viewId |-> p, paneId |-> panels[p][i].id]
    /\ last' = Last("dragstart", p, panels[p][i].id, None, None, NoIndex,
                    None, "no", {})
    /\ UNCHANGED << dockVars, viewSize, now >>
    /\ UNCHANGED << apis, mounted, props, panels, cardTypes, cardParams,
                    dropTarget, timers >>

\* a dragend that would schedule no delayed clear
DragEndNoTimer ==
    /\ gesture = "dragging"
    /\ BagCardinality(timers) < MaxTimers
    /\ gesture' = "idle"
    /\ paneData' = NoData
    /\ timers' = timers
    /\ last' = Last("dragend", paneData.viewId, paneData.paneId, None,
                    None, NoIndex, None, "no", {})
    /\ UNCHANGED << dockVars, viewSize, now >>
    /\ UNCHANGED << apis, mounted, props, panels, cardTypes, cardParams,
                    dragData, dropTarget >>

\* dragend on the dragged header (the record keeps whose header it is):
\* the slot is cleared ClearDelay ms later
DragEnd ==
    /\ gesture = "dragging"
    /\ BagCardinality(timers) < MaxTimers
    /\ gesture' = "idle"
    /\ paneData' = NoData
    /\ timers' = timers (+) SetToBag({ClearTimer})
    /\ last' = Last("dragend", paneData.viewId, paneData.paneId, None,
                    None, NoIndex, None, "no", {})
    /\ UNCHANGED << dockVars, viewSize, now >>
    /\ UNCHANGED << apis, mounted, props, panels, cardTypes, cardParams,
                    dragData, dropTarget >>

\* a delayed callback that would leave the slot as it is
ClearTimerLeavesSlot ==
    /\ BagIn(ClearTimer, timers)
    /\ timers' = timers (-) SetToBag({ClearTimer})
    /\ dragData' = dragData
    /\ last' = Last("clearTimer", None, None, None, None, NoIndex, None,
                    "no", {})
    /\ UNCHANGED << dockVars, viewSize, now >>
    /\ UNCHANGED << apis, mounted, props, panels, cardTypes, cardParams,
                    dropTarget, gesture, paneData >>

\* the callback scheduled by dragend
ClearTimerFires ==
    /\ BagIn(ClearTimer, timers)
    /\ timers' = timers (-) SetToBag({ClearTimer})
    /\ dragData' = NoDrag
    /\ last' = Last("clearTimer", None, None, None, None, NoIndex, None,
                    "no", {})
    /\ UNCHANGED << dockVars, viewSize, now >>
    /\ UNCHANGED << apis, mounted, props, panels, cardTypes, cardParams,
                    dropTarget, gesture, paneData >>

ForeignDrag(p) == dragData # NoDrag /\ dragData.fromPosition # p

HandleDragOver(p) ==
    /\ p \in mounted
    /\ dropTarget' = [dropTarget EXCEPT ![p] = IF ForeignDrag(p)
                                               THEN TRUE ELSE @]
    /\ last' = Last("dragover", p, None, None, None, NoIndex,
                    IF ForeignDrag(p) THEN "prevented" ELSE "default",
                    "no", {})
    /\ UNCHANGED << dockVars, viewSize, now >>
    /\ UNCHANGED << apis, mounted, props, panels, cardTypes, cardParams,
                    dragData, gesture, paneData, timers >>

\* the paneview.onUnhandledDragOverEvent listener of p; the paneview fires
\* the event for a drag that carries no pane of its own
OnUnhandledDragOver(p) ==
    /\ p \in mounted
    /\ paneData.viewId # p
    /\ last' = Last("unhandledDragOver", p, paneData.paneId, None, None,
                    NoIndex,
                    IF paneData # NoData /\ paneData.viewId # p
                    THEN "accepted" ELSE "default",
                    "no", {})
    /\ UNCHANGED << dockVars, viewSize, now >>
    /\ UNCHANGED << apis, mounted, props, panels, cardTypes, cardParams,
                    dragData, dropTarget, gesture, paneData, timers >>

\* dragleave; inside is containerRef.contains(relatedTarget)
HandleDragLeave(p, inside) ==
    /\ p \in mounted
    /\ dropTarget' = [dropTarget EXCEPT ![p] = IF inside THEN @ ELSE FALSE]
    /\ last' = Last("dragleave", p, None, None, None, NoIndex, None,
                    "no", {})
    /\ UNCHANGED << dockVars, viewSize, now >>
    /\ UNCHANGED << apis, mounted, props, panels, cardTypes, cardParams,
                    dragData, gesture, paneData, timers >>

\* the native drop listener of the container of p
HandleDrop(p) ==
    /\ p \in mounted
    /\ dropTarget' = [dropTarget EXCEPT ![p] = FALSE]
    /\ IF ForeignDrag(p)
       THEN LET out == MoveCardToSidebar(dragData.cardId,
                          dragData.fromPosition, p, NoIndex)
            IN /\ panels' = out.panels
               /\ dragData' = IF out.result = "throw"
                              THEN dragData ELSE NoDrag
               /\ last' = Last("drop", p, dragData.cardId,
                               dragData.fromPosition, p, NoIndex,
                               out.result, "sync", out.seen)
       ELSE /\ UNCHANGED << panels, dragData >>
            /\ last' = Last("drop", p, None, None, None, NoIndex, None,
                            "no", {})
    /\ UNCHANGED << dockVars, viewSize, now >>
    /\ UNCHANGED << apis, mounted, props, cardTypes, cardParams, gesture,
                    paneData,
                    timers >>

\* the paneview.onDidDrop listener of p; the paneview fires the event for a
\* drop that carries no pane of its own
OnDidDrop(p) ==
    /\ p \in mounted
    /\ paneData.viewId # p
    /\ IF paneData # NoData /\ paneData.viewId # p /\ paneData.paneId # None
       THEN /\ BagCardinality(timers) < MaxTimers
            /\ timers' = timers (+)
                         SetToBag({MoveTimer(paneData.paneId, Other(p), p)})
            /\ last' = Last("didDrop", p, paneData.paneId, Other(p), p,
                            NoIndex, "scheduled", "deferred", {})
       ELSE /\ timers' = timers
            /\ last' = Last("didDrop", p, paneData.paneId, None, None,
                            NoIndex, "ignored", "no", {})
    /\ UNCHANGED << dockVars, viewSize, now >>
    /\ UNCHANGED << apis, mounted, props, panels, cardTypes, cardParams,
                    dragData, dropTarget, gesture, paneData >>

\* the setTimeout(0) callback scheduled by the onDidDrop listener; its
\* record keeps the native drop it follows, if it follows one
MoveTimerFires(t) ==
    /\ BagIn(t, timers)
    /\ t.kind = "move"
    /\ timers' = timers (-) SetToBag({t})
    /\ LET out == MoveCardToSidebar(t.card, t.from, t.to, NoIndex)
       IN /\ panels' = out.panels
          /\ last' = [Last("moveTimer", t.to, t.card, t.from, t.to,
                           NoIndex, out.result, "sync", out.seen)
                       EXCEPT !.prev =
                         IF last.op = "drop"
                         THEN [op |-> last.op, pos |-> last.pos,
                               card |-> last.card, result |-> last.result]
                         ELSE NoPrev]
    /\ UNCHANGED << dockVars, viewSize, now >>
    /\ UNCHANGED << apis, mounted, props, cardTypes, cardParams, dragData,
                    dropTarget, gesture, paneData >>

\* ------------------------------------------------------------- DockLayout
\* createComponent of DockLayout: the content built for a panel of type name
\* under the factories cs and the params map pm; a type without a factory
\* gets the "Unknown panel" placeholder
DockCreateComponent(id, name, cs, pm) ==
    IF name \notin cs
    THEN [kind |-> "placeholder", params |-> None]
    ELSE [kind |-> "factory", params |-> pm[id]]

\* params map after lines 553-559: the params of the initial panels
RECURSIVE InitialPanelParams(_, _, _)
InitialPanelParams(config, k, pm) ==
    IF k > Len(config) THEN pm
    ELSE InitialPanelParams(config, k + 1,
           IF config[k].params # None
           THEN [pm EXCEPT ![config[k].id] = config[k].params]
           ELSE pm)

\* setupInitialLayout of DockLayout: one addPanel per configured panel
RECURSIVE DockSetupInitialLayout(_, _, _, _, _)
DockSetupInitialLayout(config, k, cs, pm, dv) ==
    IF k > Len(config) THEN dv
    ELSE LET c == config[k] IN
         DockSetupInitialLayout(config, k + 1, cs, pm,
           [dv EXCEPT
              !.panels = Append(@,
                 [id |-> c.id, component |-> c.type,
                  title |-> IF c.title # None THEN c.title ELSE c.id,
                  content |-> DockCreateComponent(c.id, c.type, cs, pm)]),
              !.active = c.id])

\* DockLayout onMount: a new DockviewComponent is constructed and stored in
\* window.__dockviewApi, whatever was stored there before
DockMount(pr) ==
    /\ \E n \in Instances : dockviews[n].state = "none"
    /\ LET n == CHOOSE i \in Instances :
                  /\ dockviews[i].state = "none"
                  /\ \A j \in Instances :
                        dockviews[j].state = "none" => i <= j
           pm == InitialPanelParams(pr.initialLayout, 1,
                                    dockviewPanelParams)
           dv == DockSetupInitialLayout(pr.initialLayout, 1, pr.panels, pm,
                   [state |-> "live", panels |-> << >>, active |-> None,
                    factories |-> pr.panels, size |-> ContainerRect,
                    emptyGroups |-> 0, maximized |-> FALSE,
                    location |-> "grid", visible |-> TRUE,
                    disableDnd |-> FALSE, popouts |-> 0])
       IN /\ dockviewPanelParams' = pm
          /\ dockviews' = [dockviews EXCEPT ![n] = dv]
          /\ dockviewApi' = n
          /\ dockLayouts' = dockLayouts \cup {n}
          /\ dockLast' = DockLast("mount", None, "created")
    /\ UNCHANGED << sidebarVars, now >>

\* DockLayout onCleanup of the component that constructed instance c: the
\* instance found in window.__dockviewApi is disposed and the slot nulled
DockUnmount(c) ==
    /\ c \in dockLayouts
    /\ dockLayouts' = dockLayouts \ {c}
    /\ IF dockviewApi # 0
       THEN /\ dockviews' = [dockviews EXCEPT
                               ![dockviewApi] =
                                  [NoDockview EXCEPT
                                     !.state = "disposed",
                                     !.popouts =
                                        dockviews[dockviewApi].popouts]]
            /\ dockviewApi' = 0
       ELSE UNCHANGED << dockviews, dockviewApi >>
    /\ dockLast' = DockLast("unmount", None, None)
    /\ UNCHANGED dockviewPanelParams
    /\ UNCHANGED << sidebarVars, now >>

\* the ResizeObserver callback of the DockLayout that constructed instance
\* c, which it holds in its closure: the instance is laid out only for a
\* rectangle of positive area, and also when another component's cleanup
\* has disposed it
DockResize(c, rect) ==
    /\ c \in dockLayouts
    /\ IF rect[1] > 0 /\ rect[2] > 0
       THEN /\ dockviews' = [dockviews EXCEPT ![c].size = rect]
            /\ dockLast' = [DockLast("resize", None, "layout")
                              EXCEPT !.rect = rect]
       ELSE /\ dockviews' = dockviews
            /\ dockLast' = [DockLast("resize", None, "skipped")
                              EXCEPT !.rect = rect]
    /\ UNCHANGED << dockviewApi, dockviewPanelParams, dockLayouts >>
    /\ UNCHANGED << sidebarVars, now >>

\* the group holding the tabs goes away with its last panel, and with it
\* its being maximized, floating, popped out or hidden
Regroup(dv) ==
    IF dv.panels # << >> THEN dv
    ELSE [dv EXCEPT !.maximized = FALSE, !.location = "grid",
                    !.visible = TRUE]

\* a dockview after every group was taken out of it
NoGroups(dv) ==
    [dv EXCEPT !.panels = << >>, !.active = None, !.emptyGroups = 0,
               !.maximized = FALSE, !.location = "grid", !.visible = TRUE]

\* addPanel(type, options) of DockLayout
AddPanel(call) ==
    LET id == IF call.id # None THEN call.id
              ELSE AutoId(call.type, now) IN
    /\ IF dockviewApi = 0
       THEN /\ dockLast' = [DockLast("addPanel", id, "undefined")
                              EXCEPT !.params = call.params]
            /\ UNCHANGED << dockviews, dockviewPanelParams >>
       ELSE IF GetPanel(DockPanels, id) # 0
       THEN /\ dockviews' = [dockviews EXCEPT ![dockviewApi].active = id]
            /\ dockLast' = [DockLast("addPanel", id, "existing")
                              EXCEPT !.params = call.params]
            /\ UNCHANGED dockviewPanelParams
       ELSE LET pm == IF call.params # None
                      THEN [dockviewPanelParams EXCEPT ![id] = call.params]
                      ELSE dockviewPanelParams
                new == [id |-> id, component |-> call.type,
                        title |-> IF call.title # None
                                  THEN call.title ELSE call.type,
                        content |-> DockCreateComponent(id, call.type,
                                      dockviews[dockviewApi].factories, pm)]
            IN /\ Len(DockPanels) < MaxDockPanels
               /\ dockviewPanelParams' = pm
               /\ dockviews' = [dockviews EXCEPT
                                  ![dockviewApi].panels = Append(@, new),
                                  ![dockviewApi].active = id]
               /\ dockLast' = [DockLast("addPanel", id, "added")
                              EXCEPT !.params = call.params]
    /\ UNCHANGED << dockviewApi, dockLayouts >>
    /\ UNCHANGED << sidebarVars, now >>

\* closePanel(id) of DockLayout: the panel is closed if it exists; the
\* params map is left as it is
ClosePanel(id) ==
    /\ dockviewApi # 0
    /\ LET i == GetPanel(DockPanels, id) IN
       IF i = 0
       THEN /\ dockLast' = DockLast("closePanel", id, "absent")
            /\ UNCHANGED dockviews
       ELSE LET rest == RemoveAt(DockPanels, i) IN
            /\ dockviews' = [dockviews EXCEPT
                               ![dockviewApi] = Regroup(
                                  [@ EXCEPT
                                     !.panels = rest,
                                     !.active =
                                        IF @ # id THEN @
                                        ELSE IF rest = << >> THEN None
                                        ELSE rest[Len(rest)].id])]
            /\ dockLast' = DockLast("closePanel", id, "closed")
    /\ UNCHANGED << dockviewApi, dockviewPanelParams, dockLayouts >>
    /\ UNCHANGED << sidebarVars, now >>

\* activatePanel(id) of DockLayout
ActivatePanel(id) ==
    /\ IF dockviewApi # 0 /\ GetPanel(DockPanels, id) # 0
       THEN /\ dockviews' = [dockviews EXCEPT ![dockviewApi].active = id]
            /\ dockLast' = DockLast("activatePanel", id, "active")
       ELSE /\ dockviews' = dockviews
            /\ dockLast' = DockLast("activatePanel", id, "absent")
    /\ UNCHANGED << dockviewApi, dockviewPanelParams, dockLayouts >>
    /\ UNCHANGED << sidebarVars, now >>

\* the panels and the active panel of a dockview after the panel at place
\* i was taken out
WithoutPanel(dv, i) ==
    LET rest == RemoveAt(dv.panels, i) IN
    Regroup([dv EXCEPT !.panels = rest,
                       !.active = IF @ # dv.panels[i].id THEN @
                                  ELSE IF rest = << >> THEN None
                                  ELSE rest[Len(rest)].id])

\* removePanel(panel) of DockLayout, panel being the one at place i of the
\* registered dockview
RemovePanel(i) ==
    /\ dockviewApi # 0
    /\ i \in 1..Len(DockPanels)
    /\ dockviews' = [dockviews EXCEPT
                       ![dockviewApi] = WithoutPanel(@, i)]
    /\ dockLast' = DockLast("removePanel", DockPanels[i].id, "removed")
    /\ UNCHANGED << dockviewApi, dockviewPanelParams, dockLayouts >>
    /\ UNCHANGED << sidebarVars, now >>

\* clear() of DockLayout: every panel and group is removed
Clear ==
    /\ dockviewApi # 0
    /\ dockviews' = [dockviews EXCEPT ![dockviewApi] = NoGroups(@)]
    /\ dockLast' = DockLast("clear", None, "cleared")
    /\ UNCHANGED << dockviewApi, dockviewPanelParams, dockLayouts >>
    /\ UNCHANGED << sidebarVars, now >>

\* closeAllGroups() of DockLayout: the panels of every group are closed,
\* and a group goes away with its last panel
CloseAllGroups ==
    /\ dockviewApi # 0
    /\ dockviews' = [dockviews EXCEPT ![dockviewApi] = NoGroups(@)]
    /\ dockLast' = DockLast("closeAllGroups", None, "closed")
    /\ UNCHANGED << dockviewApi, dockviewPanelParams, dockLayouts >>
    /\ UNCHANGED << sidebarVars, now >>

\* removeGroup(group) of DockLayout.  The panels added by addPanel without
\* options.position are the tabs of one group: removing it removes them
RemoveGroup ==
    /\ dockviewApi # 0
    /\ DockPanels # << >>
    /\ dockviews' = [dockviews EXCEPT
                       ![dockviewApi] =
                          Regroup([@ EXCEPT !.panels = << >>,
                                            !.active = None])]
    /\ dockLast' = DockLast("removeGroup", None, "removed")
    /\ UNCHANGED << dockviewApi, dockviewPanelParams, dockLayouts >>
    /\ UNCHANGED << sidebarVars, now >>

\* layout(width, height) of DockLayout: the registered dockview is laid
\* out with the rectangle given, whatever it is
Layout(rect) ==
    /\ dockviewApi # 0
    /\ dockviews' = [dockviews EXCEPT ![dockviewApi].size = rect]
    /\ dockLast' = [DockLast("layout", None, "layout") EXCEPT !.rect = rect]
    /\ UNCHANGED << dockviewApi, dockviewPanelParams, dockLayouts >>
    /\ UNCHANGED << sidebarVars, now >>

\* dockview.toJSON of a dockview: its panels (id, content component, title),
\* the active panel, the groups without panels and where the group of tabs
\* is shown
DockviewToJSON(dv) ==
    [panels |-> [i \in 1..Len(dv.panels) |->
                   [id |-> dv.panels[i].id,
                    contentComponent |-> dv.panels[i].component,
                    title |-> dv.panels[i].title]],
     activePanel |-> dv.active,
     emptyGroups |-> dv.emptyGroups,
     location |-> dv.location]

\* toJSON() of DockLayout: the registered dockview serialized, undefined
\* when there is none
ToJSON ==
    IF dockviewApi = 0 THEN None
    ELSE DockviewToJSON(dockviews[dockviewApi])

\* a center layout saved by toJSON in an earlier session
SavedDockLayout ==
    [panels |-> << [id |-> "editor-1", contentComponent |-> "editor",
                    title |-> "Editor"] >>,
     activePanel |-> "editor-1",
     emptyGroups |-> 0,
     location |-> "grid"]

\* the serialized layouts handed to fromJSON
DockJSONInputs ==
    (IF dockviewApi = 0 THEN {} ELSE {ToJSON}) \cup {SavedDockLayout}

\* fromJSON(data) of DockLayout: the registered dockview is cleared and the
\* panels of data are built again through createComponent
FromJSON(data) ==
    /\ dockviewApi # 0
    /\ Len(data.panels) <= MaxDockPanels
    /\ dockviews' =
         [dockviews EXCEPT
            ![dockviewApi] =
               [NoGroups(@) EXCEPT
                  !.panels =
                     [i \in 1..Len(data.panels) |->
                        [id |-> data.panels[i].id,
                         component |-> data.panels[i].contentComponent,
                         title |-> data.panels[i].title,
                         content |-> DockCreateComponent(data.panels[i].id,
                                       data.panels[i].contentComponent,
                                       dockviews[dockviewApi].factories,
                                       dockviewPanelParams)]],
                  !.active = data.activePanel,
                  !.emptyGroups = data.emptyGroups,
                  !.location = data.location]]
    /\ dockLast' = DockLast("fromJSON", None, "restored")
    /\ UNCHANGED << dockviewApi, dockviewPanelParams, dockLayouts >>
    /\ UNCHANGED << sidebarVars, now >>

\* moveToNext(options) and moveToPrevious(options) of DockLayout.  With
\* options.includePanel the neighbour tab of the active panel becomes the
\* active one; at the end of the tabs, or without includePanel, the
\* neighbour group is activated, which is the one group itself
MoveTo(op, step, includePanel) ==
    /\ dockviewApi # 0
    /\ LET dv == dockviews[dockviewApi]
           i == GetPanel(dv.panels, dv.active)
       IN IF includePanel /\ i # 0 /\ (i + step) \in 1..Len(dv.panels)
          THEN /\ dockviews' = [dockviews EXCEPT
                                  ![dockviewApi].active =
                                     dv.panels[i + step].id]
               /\ dockLast' = DockLast(op, dv.panels[i + step].id, "moved")
          ELSE /\ dockviews' = dockviews
               /\ dockLast' = DockLast(op, dv.active, "same")
    /\ UNCHANGED << dockviewApi, dockviewPanelParams, dockLayouts >>
    /\ UNCHANGED << sidebarVars, now >>

MoveToNext(includePanel) == MoveTo("moveToNext", 1, includePanel)

MoveToPrevious(includePanel) == MoveTo("moveToPrevious", -1, includePanel)

\* moveGroupOrPanel({from: {groupId, panelId}, to: {group, position:
\* 'center', index}}) of DockLayout for the panel at place i of the group
\* and the group itself as target: the tab is taken out, put back at index
\* and made the active one
MoveGroupOrPanel(i, index) ==
    /\ dockviewApi # 0
    /\ i \in 1..Len(DockPanels)
    /\ index \in 0..(Len(DockPanels) - 1)
    /\ LET panel == DockPanels[i]
           rest == RemoveAt(DockPanels, i)
       IN /\ dockviews' = [dockviews EXCEPT
                             ![dockviewApi].panels =
                                InsertAt(rest, index, panel),
                             ![dockviewApi].active = panel.id]
          /\ dockLast' = DockLast("moveGroupOrPanel", panel.id, "moved")
    /\ UNCHANGED << dockviewApi, dockviewPanelParams, dockLayouts >>
    /\ UNCHANGED << sidebarVars, now >>

\* addGroup(options) of DockLayout: the registered dockview gets one more
\* group, without panels; without a registered dockview nothing is added
\* and undefined is returned
AddGroup ==
    /\ IF dockviewApi = 0
       THEN /\ dockviews' = dockviews
            /\ dockLast' = DockLast("addGroup", None, "undefined")
       ELSE /\ dockviews[dockviewApi].emptyGroups < MaxGroups
            /\ dockviews' = [dockviews EXCEPT
                               ![dockviewApi].emptyGroups = @ + 1]
            /\ dockLast' = DockLast("addGroup", None, "added")
    /\ UNCHANGED << dockviewApi, dockviewPanelParams, dockLayouts >>
    /\ UNCHANGED << sidebarVars, now >>

\* addFloatingGroup(item, options) of DockLayout, item being the group of
\* tabs: the group is taken out of the grid and floats over it
AddFloatingGroup ==
    /\ IF dockviewApi = 0
       THEN /\ dockviews' = dockviews
            /\ dockLast' = DockLast("addFloatingGroup", None, "undefined")
       ELSE /\ DockPanels # << >>
            /\ dockviews' = [dockviews EXCEPT
                               ![dockviewApi].location = "floating",
                               ![dockviewApi].maximized = FALSE]
            /\ dockLast' = DockLast("addFloatingGroup", None, "floating")
    /\ UNCHANGED << dockviewApi, dockviewPanelParams, dockLayouts >>
    /\ UNCHANGED << sidebarVars, now >>

\* addPopoutGroup(item, options) of DockLayout, item being the group of
\* tabs: the call is handed to the registered dockview and its promise is
\* returned, pending; nothing has moved when the call returns
AddPopoutGroup ==
    /\ IF dockviewApi = 0
       THEN /\ dockviews' = dockviews
            /\ dockLast' = DockLast("addPopoutGroup", None, "undefined")
       ELSE /\ DockPanels # << >>
            /\ dockviews[dockviewApi].popouts < MaxPopouts
            /\ dockviews' = [dockviews EXCEPT
                               ![dockviewApi].popouts = @ + 1]
            /\ dockLast' = DockLast("addPopoutGroup", None, "pending")
    /\ UNCHANGED << dockviewApi, dockviewPanelParams, dockLayouts >>
    /\ UNCHANGED << sidebarVars, now >>

\* a promise returned by addPopoutGroup for dockview n settles, in a later
\* turn of the event loop and whatever was called in between: it resolves
\* to opened, whether the browser let the window open, and the group is
\* in the window when it did
PopoutSettles(n, opened) ==
    /\ dockviews[n].popouts > 0
    /\ dockviews' = [dockviews EXCEPT
                       ![n] = IF opened
                              THEN [@ EXCEPT !.popouts = @ - 1,
                                             !.location = "popout",
                                             !.maximized = FALSE]
                              ELSE [@ EXCEPT !.popouts = @ - 1]]
    /\ dockLast' = DockLast("popoutSettles", None,
                            IF opened THEN "true" ELSE "false")
    /\ UNCHANGED << dockviewApi, dockviewPanelParams, dockLayouts >>
    /\ UNCHANGED << sidebarVars, now >>

\* maximizeGroup(group) of DockLayout, group being the group of tabs: a
\* group of the grid is maximized, a floating or popped out one is left
MaximizeGroup ==
    /\ IF dockviewApi = 0
       THEN /\ dockviews' = dockviews
            /\ dockLast' = DockLast("maximizeGroup", None, "undefined")
       ELSE /\ DockPanels # << >>
            /\ IF dockviews[dockviewApi].location = "grid"
               THEN /\ dockviews' = [dockviews EXCEPT
                                       ![dockviewApi].maximized = TRUE]
                    /\ dockLast' = DockLast("maximizeGroup", None,
                                            "maximized")
               ELSE /\ dockviews' = dockviews
                    /\ dockLast' = DockLast("maximizeGroup", None, "same")
    /\ UNCHANGED << dockviewApi, dockviewPanelParams, dockLayouts >>
    /\ UNCHANGED << sidebarVars, now >>

\* hasMaximizedGroup() of DockLayout: false without a registered dockview
HasMaximizedGroup ==
    IF dockviewApi = 0 THEN FALSE ELSE dockviews[dockviewApi].maximized

\* exitMaximizedGroup() of DockLayout
ExitMaximizedGroup ==
    /\ IF dockviewApi = 0
       THEN /\ dockviews' = dockviews
            /\ dockLast' = DockLast("exitMaximizedGroup", None, "undefined")
       ELSE /\ dockviews' = [dockviews EXCEPT
                               ![dockviewApi].maximized = FALSE]
            /\ dockLast' = DockLast("exitMaximizedGroup", None,
                                    IF HasMaximizedGroup THEN "restored"
                                    ELSE "same")
    /\ UNCHANGED << dockviewApi, dockviewPanelParams, dockLayouts >>
    /\ UNCHANGED << sidebarVars, now >>

\* focus() of DockLayout: the call is handed to the registered dockview;
\* no panel, group or stored value changes
Focus ==
    /\ dockLast' = DockLast("focus", None,
                            IF dockviewApi = 0 THEN "undefined"
                            ELSE "focused")
    /\ UNCHANGED << dockviewApi, dockviews, dockviewPanelParams,
                    dockLayouts >>
    /\ UNCHANGED << sidebarVars, now >>

\* setGroupVisible(group, visible) of DockLayout, group being the group of
\* tabs
SetGroupVisible(visible) ==
    /\ IF dockviewApi = 0
       THEN /\ dockviews' = dockviews
            /\ dockLast' = DockLast("setGroupVisible", None, "undefined")
       ELSE /\ DockPanels # << >>
            /\ dockviews' = [dockviews EXCEPT
                               ![dockviewApi].visible = visible]
            /\ dockLast' = DockLast("setGroupVisible", None,
                                    IF visible THEN "shown" ELSE "hidden")
    /\ UNCHANGED << dockviewApi, dockviewPanelParams, dockLayouts >>
    /\ UNCHANGED << sidebarVars, now >>

\* updateOptions(options) of DockLayout with options = {disableDnd}: the
\* option set to false on mount is overwritten
UpdateOptions(disableDnd) ==
    /\ IF dockviewApi = 0
       THEN /\ dockviews' = dockviews
            /\ dockLast' = DockLast("updateOptions", None, "undefined")
       ELSE /\ dockviews' = [dockviews EXCEPT
                               ![dockviewApi].disableDnd = disableDnd]
            /\ dockLast' = DockLast("updateOptions", None, "updated")
    /\ UNCHANGED << dockviewApi, dockviewPanelParams, dockLayouts >>
    /\ UNCHANGED << sidebarVars, now >>

\* a millisecond passes: Date.now() gives the next value
Tick ==
    /\ now < MaxClock
    /\ now' = now + 1
    /\ UNCHANGED << sidebarVars, dockVars >>

\* the setTimeout callbacks that are pending and can run
TimerSet == BagToSet(timers)

NextApi ==
    \/ \E p \in Positions, pr \in SidebarPropsSet : Mount(p, pr)
    \/ \E p \in Positions, call \in AddCardCalls,
          index \in Indexes : AddCard(p, call, index)
    \/ \E p \in Positions, src \in Positions, i \in 1..MaxPanels :
          RemoveCard(p, src, i)
    \/ \E c \in Ids, from \in Positions, to \in Positions,
          index \in Indexes :
            CallMoveCardToSidebar(c, from, to, index)

NextJSON ==
    \/ \E p \in Positions, pr \in SidebarPropsSet : Mount(p, pr)
    \/ \E p \in Positions, call \in AddCardCalls :
          AddCard(p, call, NoIndex)
    \/ \E c \in Ids, from \in Positions, to \in Positions :
          CallMoveCardToSidebar(c, from, to, NoIndex)
    \/ \E p \in Positions, n \in 0..MaxPanels, kept \in BOOLEAN :
          SidebarFromJSON(p, n, kept)
    \/ \E p \in Positions : ClearSidebar(p)

NextOrder ==
    \/ \E p \in Positions, pr \in SidebarPropsSet : Mount(p, pr)
    \/ \E p \in Positions, call \in AddCardCalls,
          index \in Indexes : AddCard(p, call, index)
    \/ \E p \in Positions, from \in 0..MaxPanels, to \in 0..MaxPanels :
          MoveCard(p, from, to)

NextAuto ==
    \/ \E p \in Positions, pr \in SidebarPropsSet : Mount(p, pr)
    \/ Tick
    \/ \E p \in Positions, call \in AutoAddCardCalls :
          AddCard(p, call, NoIndex)
    \/ \E pr \in DockPropsSet : DockMount(pr)
    \/ \E call \in AutoAddPanelCalls : AddPanel(call)

NextDrag ==
    \/ \E p \in Positions, pr \in SidebarPropsSet : Mount(p, pr)
    \/ \E p \in Positions, i \in 1..MaxPanels : DragStart(p, i)
    \/ DragEnd
    \/ ClearTimerFires
    \/ \E p \in Positions : HandleDragOver(p)
    \/ \E p \in Positions : OnUnhandledDragOver(p)
    \/ \E p \in Positions, inside \in BOOLEAN : HandleDragLeave(p, inside)
    \/ \E p \in Positions : HandleDrop(p)
    \/ \E p \in Positions : OnDidDrop(p)
    \/ \E t \in TimerSet : MoveTimerFires(t)

NextDock ==
    \/ \E pr \in DockPropsSet : DockMount(pr)
    \/ \E c \in Instances : DockUnmount(c)
    \/ \E call \in AddPanelCalls : AddPanel(call)
    \/ \E id \in DockIds : ClosePanel(id)

NextDockApi ==
    \/ \E pr \in DockPropsSet : DockMount(pr)
    \/ \E call \in AddPanelCalls : AddPanel(call)
    \/ \E id \in DockIds : ActivatePanel(id)
    \/ \E i \in 1..MaxDockPanels : RemovePanel(i)
    \/ Clear
    \/ CloseAllGroups
    \/ RemoveGroup
    \/ \E rect \in Rects : Layout(rect)
    \/ \E data \in DockJSONInputs : FromJSON(data)
    \/ \E includePanel \in BOOLEAN : MoveToNext(includePanel)
    \/ \E includePanel \in BOOLEAN : MoveToPrevious(includePanel)
    \/ \E i \in 1..MaxDockPanels, index \in 0..(MaxDockPanels - 1) :
          MoveGroupOrPanel(i, index)

NextDockGroups ==
    \/ \E pr \in DockPropsSet : DockMount(pr)
    \/ \E call \in AddPanelCalls : AddPanel(call)
    \/ AddGroup
    \/ RemoveGroup
    \/ AddFloatingGroup
    \/ MaximizeGroup
    \/ ExitMaximizedGroup

NextDockPopout ==
    \/ \E pr \in DockPropsSet : DockMount(pr)
    \/ \E c \in Instances : DockUnmount(c)
    \/ \E call \in AddPanelCalls : AddPanel(call)
    \/ \E id \in DockIds : ClosePanel(id)
    \/ MaximizeGroup
    \/ AddPopoutGroup
    \/ \E n \in Instances, opened \in BOOLEAN : PopoutSettles(n, opened)

NextDockOptions ==
    \/ \E pr \in DockPropsSet : DockMount(pr)
    \/ \E call \in AddPanelCalls : AddPanel(call)
    \/ \E i \in 1..MaxDockPanels : RemovePanel(i)
    \/ Focus
    \/ \E visible \in BOOLEAN : SetGroupVisible(visible)
    \/ \E disableDnd \in BOOLEAN : UpdateOptions(disableDnd)

NextResize ==
    \/ \E p \in Positions, pr \in SidebarPropsSet : Mount(p, pr)
    \/ \E p \in Positions, rect \in Rects : Resize(p, rect)
    \/ \E pr \in DockPropsSet : DockMount(pr)
    \/ \E c \in Instances : DockUnmount(c)
    \/ \E c \in Instances, rect \in Rects : DockResize(c, rect)

Next ==
    \/ NextResize
    \/ NextAuto
    \/ NextApi
    \/ NextOrder
    \/ NextJSON
    \/ NextDrag
    \/ NextDock
    \/ NextDockApi
    \/ NextDockGroups
    \/ NextDockPopout
    \/ NextDockOptions
    \/ \E p \in Positions : Unmount(p)
    \/ \E p \in Positions, from \in 0..MaxPanels, to \in 0..MaxPanels :
            MoveCard(p, from, to)

\* every operation and event
Spec == Init /\ [][Next]_vars

\* the exported functions called by the application
SpecApi == Init /\ [][NextApi]_vars

\* a user dragging card headers between the mounted sidebars
SpecDrag == Init /\ [][NextDrag]_vars

\* the exported functions with layout restore
SpecJSON == Init /\ [][NextJSON]_vars

\* adding cards and reordering them inside a sidebar
SpecOrder == Init /\ [][NextOrder]_vars

\* cards added under generated ids while the clock advances
SpecAuto == Init /\ [][NextAuto]_vars

\* the resize observers of the mounted components
SpecResize == Init /\ [][NextResize]_vars

\* the DockLayout component and its exported functions
SpecDock == Init /\ [][NextDock]_vars

\* the panel, group, layout and navigation functions of DockLayout
SpecDockApi == Init /\ [][NextDockApi]_vars

\* the group, floating and maximize functions of DockLayout
SpecDockGroups == Init /\ [][NextDockGroups]_vars

\* a group popped out into a window of its own, with what can run between
\* the call and the settling of its promise
SpecDockPopout == Init /\ [][NextDockPopout]_vars

\* the focus, visibility and option functions of DockLayout
SpecDockOptions == Init /\ [][NextDockOptions]_vars

\* the drag listeners with the event loop's guarantee that a callback handed
\* to setTimeout is run
SpecDragFair ==
    /\ Init
    /\ [][NextDrag]_vars
    /\ WF_vars(ClearTimerFires)
    /\ WF_vars(\E t \in TimerSet : MoveTimerFires(t))

\* ------------------------------------------------------------ properties
\* the step that produced this state ran moveCardToSidebar to the end of a
\* call (directly, from the native drop listener or from the deferred
\* onDidDrop callback)
Migrated == last.moveCalled = "sync"

\* 0-based place at which the last migration put the card in its target
TargetIndex ==
    IF last.index = NoIndex THEN Len(last.before[last.to]) ELSE last.index

\* C1: no card id is in the panel sequences of both sidebars at once
C1_NoCardInBothSidebars ==
    \A c \in Ids :
        ~ (c \in IdsOf(panels["left"]) /\ c \in IdsOf(panels["right"]))

\* C2: moveCardToSidebar(cardId, S, T) with S # T, both registered, cardId in
\* S and not in T returns true, leaves S without the card and the others in
\* order, and T with the card inserted at options.index (at the end when no
\* index is given)
C2_MoveResult ==
    ( /\ last.op = "move"
      /\ last.from # last.to
      /\ {last.from, last.to} \subseteq apis
      /\ last.card \in IdsOf(last.before[last.from])
      /\ last.card \notin IdsOf(last.before[last.to]) )
    => /\ last.result = "true"
       /\ panels[last.from] =
            SelectSeq(last.before[last.from], LAMBDA x : x.id # last.card)
       /\ Len(panels[last.to]) = Len(last.before[last.to]) + 1
       /\ panels[last.to][TargetIndex + 1].id = last.card
       /\ RemoveAt(panels[last.to], TargetIndex + 1) = last.before[last.to]

\* C3: after a successful migration the panel in the target has the type,
\* title, params, expanded flag and size the panel had in the source
C3_MigrationKeepsState ==
    (Migrated /\ last.result = "true")
    => LET old == last.before[last.from]
                    [GetPanel(last.before[last.from], last.card)]
           new == panels[last.to][TargetIndex + 1]
       IN /\ new.component = old.component
          /\ new.title = old.title
          /\ new.expanded = old.expanded
          /\ new.size = old.size
          /\ cardParams[last.to][last.card] = cardParams[last.from][last.card]

\* C4: moveCardToSidebar(c, A, B) followed by moveCardToSidebar(c, B, A)
\* leaves the card in A and not in B with the type, title, expanded flag and
\* size it had before the first call
C4_RoundTrip ==
    (last.op = "move" /\ last.origin # NoPanel)
    => /\ last.card \in IdsOf(panels[last.to])
       /\ last.card \notin IdsOf(panels[last.from])
       /\ \E i \in 1..Len(panels[last.to]) :
            /\ panels[last.to][i].id = last.card
            /\ panels[last.to][i].component = last.origin.component
            /\ panels[last.to][i].title = last.origin.title
            /\ panels[last.to][i].expanded = last.origin.expanded
            /\ panels[last.to][i].size = last.origin.size

\* C5: moveCardToSidebar(cardId, S, T) while T already holds a panel with id
\* cardId leaves T with exactly one such panel and raises no exception
C5_NoDuplicateInTarget ==
    ( /\ Migrated
      /\ last.from # last.to
      /\ last.to \in apis
      /\ last.card \in IdsOf(last.before[last.to]) )
    => /\ Count(panels[last.to], last.card) = 1
       /\ last.result # "throw"

\* C6: moveCardToSidebar returns false without throwing and leaves the panel
\* sequences of both sidebars unchanged when the source or the target sidebar
\* is not registered or cardId is not in the source sidebar
C6_AbortLeavesPanels ==
    ( /\ Migrated
      /\ \/ last.from \notin apis
         \/ last.to \notin apis
         \/ last.card \notin IdsOf(last.before[last.from]) )
    => /\ last.result = "false"
       /\ panels = last.before

\* C6 witness: a call for a card that is not in the registered source, made
\* while both sidebars are registered and hold cards
C6_Witness ==
    /\ last.op = "move"
    /\ last.from # last.to
    /\ {last.from, last.to} \subseteq apis
    /\ last.card \notin IdsOf(last.before[last.from])
    /\ last.before[last.from] # << >>
    /\ last.card \in IdsOf(last.before[last.to])
    /\ last.result = "false"

\* C7: no view listener called during a migration sees the migrated card in
\* neither sidebar
C7_NoGapObserved ==
    Migrated => \A o \in last.seen : o.owners # {}

\* C8: when a migration fails after the card was removed from the source,
\* both panel sequences are as they were before the migration
C8_FailedMigrationRestores ==
    (Migrated /\ last.result = "throw") => panels = last.before

\* C9: a drop handled while the session slot is empty or names the receiving
\* sidebar itself never invokes moveCardToSidebar, in neither drop handler
C9_NoMigrationWithoutForeignSlot ==
    ( /\ last.op \in {"drop", "didDrop"}
      /\ (last.slot = NoDrag \/ last.slot.fromPosition = last.pos) )
    => last.moveCalled = "no"

\* C10: a drop on T while the slot holds {cardId, S} with S # T migrates the
\* card: afterwards cardId is in T and not in S and the slot is empty
C10_ForeignDropMigrates ==
    ( /\ last.op = "drop"
      /\ last.slot # NoDrag
      /\ last.slot.fromPosition # last.pos )
    => /\ last.moveCalled = "sync"
       /\ last.slot.cardId \in IdsOf(panels[last.pos])
       /\ last.slot.cardId \notin IdsOf(panels[last.slot.fromPosition])
       /\ dragData = NoDrag

\* a drop handled after the gesture's dragend while a delayed clear is pending
\* a step that handles a drop on sidebar p right after the dragend of the
\* header of a card of the other sidebar, the card still there and the
\* clear that dragend scheduled pending
GraceDrop(p) ==
    /\ last.op = "dragend"
    /\ last.pos = Other(p)
    /\ last.card \in IdsOf(panels[Other(p)])
    /\ gesture = "idle"
    /\ BagIn(ClearTimer, timers)
    /\ last'.op = "drop"
    /\ last'.pos = p

\* C11: a drop on the receiving sidebar that is delivered after dragend has
\* fired on the source card header and before the grace delay has elapsed
\* finds the session slot populated with the dragged card and performs the
\* migration: the card is then in the receiving sidebar and not in the source
C11_DropInGraceDelayMigrates ==
    [][ \A p \in Positions :
          GraceDrop(p)
          => /\ dragData # NoDrag
             /\ dragData.cardId = last.card
             /\ last'.result = "true"
             /\ last.card \in IdsOf(panels'[p])
             /\ last.card \notin IdsOf(panels'[Other(p)]) ]_vars

\* C12: the session slot is populated only while a drag is in progress; in
\* every idle state it is empty
C12_SlotOnlyWhileDragging ==
    gesture = "idle" => dragData = NoDrag

\* C12, amended: the slot is populated only from a dragstart to the delayed
\* clear scheduled by a dragend; in every idle state in which no delayed
\* clear is pending the slot is empty
C12_SlotEmptyAfterGraceDelay ==
    (gesture = "idle" /\ ~BagIn(ClearTimer, timers)) => dragData = NoDrag

\* C12 witness: the last pending delayed clear emptied a populated slot
C12_Witness ==
    /\ last.op = "clearTimer"
    /\ last.slot # NoDrag
    /\ gesture = "idle"
    /\ ~BagIn(ClearTimer, timers)
    /\ dragData = NoDrag

\* C13: after every dragend, whether or not a drop happened, the session
\* slot eventually becomes empty unless a new drag starts
C13_SlotEventuallyCleared ==
    (last.op = "dragend") ~> (dragData = NoDrag \/ gesture = "dragging")

\* C13 witness: a drag ended without any drop (the card is still in its
\* source) and the delayed clear emptied the slot
C13_Witness ==
    /\ last.op = "clearTimer"
    /\ last.slot # NoDrag
    /\ last.slot.cardId \in IdsOf(panels[last.slot.fromPosition])
    /\ gesture = "idle"
    /\ dragData = NoDrag

\* C14: once the session slot has been cleared after a drag ended, no
\* sidebar carries the sidebar-drop-target class any more
C14_NoDropTargetAfterClear ==
    (gesture = "idle" /\ dragData = NoDrag)
    => \A p \in Positions : ~dropTarget[p]

\* C15: a dragover on a sidebar is accepted (the default suppressed, the
\* sidebar marked as drop target) exactly when the session slot is populated
\* and names another sidebar as source, in the native listener and in the
\* paneview's unhandled-drag-over listener
C15_DragOverAcceptsIffForeignSlot ==
    last.op \in {"dragover", "unhandledDragOver"}
    => /\ (last.result \in {"prevented", "accepted"})
            <=> (last.slot # NoDrag /\ last.slot.fromPosition # last.pos)
       /\ (last.result = "prevented" => dropTarget[last.pos])

\* C16: a second addCard (sidebar) or addPanel (center surface) made right
\* after a first one with the same explicit id on the same surface leaves
\* exactly one panel with that id, returns that panel, and changes neither
\* the panel sequence nor the stored params
C16_AddTwiceIdempotent ==
    /\ (last.op = "addCard" /\ last.again /\ last.pos \in apis)
       => /\ Count(panels[last.pos], last.card) = 1
          /\ last.result = "existing"
          /\ panels = last.before
          /\ cardParams = last.paramsBefore
    /\ (dockLast.op = "addPanel" /\ dockLast.again /\ dockviewApi # 0)
       => /\ Count(DockPanels, dockLast.id) = 1
          /\ dockLast.result = "existing"
          /\ DockPanels = dockLast.panelsBefore
          /\ dockviewPanelParams = dockLast.paramsBefore

\* C17: after addCard(p, id) the ids of sidebar p are those before plus id,
\* after removeCard(p, panel) those before minus the id of panel, so that
\* the id set is always (ids added) minus (ids removed)
C17_IdsAreAddedMinusRemoved ==
    /\ (last.op = "addCard" /\ last.pos \in apis)
       => IdsOf(panels[last.pos])
            = IdsOf(last.before[last.pos]) \cup {last.card}
    /\ (last.op = "removeCard")
       => IdsOf(panels[last.pos])
            = IdsOf(last.before[last.pos]) \ {last.card}

\* C18: removeCard with a panel that is not in the sidebar throws nothing
\* and leaves the sidebar's panel sequence as it was
C18_RemoveAbsentIsNoOp ==
    (last.op = "removeCard" /\ last.from # last.pos)
    => /\ last.result # "throw"
       /\ panels = last.before

\* C19: adding a panel whose type has no content factory never throws: the
\* surface gets a panel with that id, on a sidebar and on the center surface
C19_UnknownTypeGetsPlaceholder ==
    /\ (last.op = "addCard" /\ last.pos \in apis)
       => /\ last.result # "throw"
          /\ last.card \in IdsOf(panels[last.pos])
    /\ (last.op = "mount" /\ last.result = "created")
       => \A k \in 1..Len(props[last.pos].initialLayout) :
             props[last.pos].initialLayout[k].id
               \in IdsOf(panels[last.pos])
    /\ (dockLast.op = "addPanel" /\ dockviewApi # 0)
       => dockLast.id \in IdsOf(DockPanels)
    /\ (dockLast.op = "mount")
       => \A pr \in DockPropsSet :
             dockviews[dockviewApi].factories = pr.panels
             => \A k \in 1..Len(pr.initialLayout) :
                   pr.initialLayout[k].id \in IdsOf(DockPanels)

\* C20: unmounting and remounting a surface component never removes or
\* replaces the registry entry: the registered instance and its panel
\* sequence are the same after an unmount and after a mount that found an
\* instance registered
C20_RemountKeepsRegistryEntry ==
    /\ (last.op = "unmount")
       => (last.pos \in apis /\ panels = last.before)
    /\ (last.op = "mount" /\ last.result = "reattached")
       => (last.pos \in apis /\ panels = last.before)
    /\ (dockLast.op = "unmount" /\ dockLast.apiBefore # 0)
       => /\ dockviewApi = dockLast.apiBefore
          /\ DockPanels = dockLast.panelsBefore
    /\ (dockLast.op = "mount" /\ dockLast.apiBefore # 0)
       => /\ dockviewApi = dockLast.apiBefore
          /\ DockPanels = dockLast.panelsBefore

ZeroArea(rect) == rect[1] = 0 \/ rect[2] = 0

\* C21: a resize-observer callback that reports a zero-area size triggers no
\* relayout and no exception, and no resize changes the panels of the
\* surface, on a sidebar and on the center surface
C21_ZeroSizeResizeIsNoOp ==
    /\ (last.op = "resize")
       => /\ panels = last.before
          /\ ZeroArea(last.rect)
             => (last.result = "skipped" /\ viewSize = last.sizeBefore)
    /\ (dockLast.op = "resize")
       => /\ DockPanels = dockLast.panelsBefore
          /\ ZeroArea(dockLast.rect)
             => (dockLast.result = "skipped"
                 /\ dockviews = dockLast.viewsBefore)

\* the sequences a and b hold the same panels the same number of times
IsPermutation(a, b) ==
    /\ Len(a) = Len(b)
    /\ \A i \in 1..Len(a) :
          Cardinality({ j \in 1..Len(a) : a[j] = a[i] })
            = Cardinality({ j \in 1..Len(b) : b[j] = a[i] })

\* C23: moveCard never throws, also for an index outside the valid range,
\* and the panel sequence afterwards is a permutation of the one before
C23_MoveCardClampsAndPermutes ==
    (last.op = "moveCard")
    => /\ last.result # "throw"
       /\ \A p \in Positions : IsPermutation(panels[p], last.before[p])

\* the deferred callback of onDidDrop ran right after the native drop
\* listener had processed the same drop (same card, same target)
SecondProcessing ==
    /\ last.op = "moveTimer"
    /\ last.prev.op = "drop"
    /\ last.prev.card = last.card
    /\ last.prev.pos = last.to

\* C24: when one cross-sidebar drop is processed by the native drop listener
\* and then by the deferred onDidDrop callback, the second processing
\* changes no state and the card is in the target sidebar exactly once
C24_DropProcessedTwiceMovesOnce ==
    SecondProcessing
    => /\ panels = last.before
       /\ Count(panels[last.to], last.card) = 1
       /\ Count(panels[last.from], last.card) = 0

\* C25: the delayed clear scheduled by an earlier gesture's dragend does not
\* empty the slot written by the dragstart of the gesture now in progress
C25_StaleClearKeepsNewSlot ==
    (last.op = "clearTimer" /\ gesture = "dragging" /\ last.slot # NoDrag)
    => dragData = last.slot

\* C26: a dragstart on a card header writes as fromPosition the sidebar
\* that holds the card, also after the card was migrated
C26_SlotNamesHoldingSidebar ==
    (last.op = "dragstart")
    => /\ dragData.cardId = last.card
       /\ dragData.fromPosition = last.pos
       /\ dragData.cardId \in IdsOf(panels[dragData.fromPosition])

\* C26 witness: the dragged card had been migrated into the sidebar it is
\* dragged from (a migrated card carries its id as title)
C26_Witness ==
    /\ last.op = "dragstart"
    /\ \E i \in 1..Len(panels[last.pos]) :
          /\ panels[last.pos][i].id = last.card
          /\ panels[last.pos][i].title = last.card
    /\ dragData.fromPosition = last.pos

\* C27: every card present in a sidebar has an entry in the card-type map
\* holding the component type it was created with, and no migration falls
\* back to the card id as type
C27_TypeMapCoversEveryCard ==
    /\ \A p \in Positions : \A i \in 1..Len(panels[p]) :
          cardTypes[panels[p][i].id] = panels[p][i].component
    /\ (last.op = "move" /\ last.result # "false")
       => cardTypes[last.card] # None

\* two addCard calls without options.id, one after the other on the same
\* initialized sidebar and for the same type
TwoAutoAdds ==
    /\ last.op = "addCard" /\ last.card \in AllIds \ Ids
    /\ last.result # "undefined"
    /\ last.prev.op = "addCard" /\ last.prev.pos = last.pos
    /\ last.prev.card \in AllIds \ Ids
    /\ last.prev.result = "added"

\* C28: two addCard calls without options.id for the same type on an
\* initialized sidebar generate distinct ids and each adds a card, however
\* close together in time they are made
C28_AutoIdsAreDistinct ==
    TwoAutoAdds
    => /\ last.card # last.prev.card
       /\ last.result = "added"
       /\ Len(panels[last.pos]) = Len(last.before[last.pos]) + 1

\* C29: a center panel added by addPanel without params is constructed
\* with an empty params bag, whatever was added and closed under its id
\* before
C29_NoParamsMeansEmptyBag ==
    (dockLast.op = "addPanel" /\ dockLast.result = "added"
       /\ dockLast.params = None)
    => LET new == DockPanels[GetPanel(DockPanels, dockLast.id)]
       IN new.content.kind = "factory" => new.content.params = None

\* C30: the cleanup of a DockLayout component disposes only the instance
\* this component constructed: the instance of a component that is still
\* mounted stays undisposed and stays registered in window.__dockviewApi
C30_CleanupDisposesOwnInstance ==
    dockLast.op = "unmount"
    => \A n \in dockLayouts :
          /\ dockLast.viewsBefore[n].state = "live"
                => dockviews[n].state = "live"
          /\ dockLast.apiBefore = n => dockviewApi = n

====
